---- MODULE Spec2Model ----
(***************************************************************************)
(* Model of the EPD protocol driver of rpi_epd3in7 (src/rpi_epd3in7/epd.py).*)
(*                                                                         *)
(* Every method of class EPD is an operator that yields the sequence of    *)
(* primitive calls the method makes on the GPIO, SPI and clock             *)
(* capabilities, in program order.  The state machine executes such a      *)
(* sequence one primitive call per step, so that every intermediate state  *)
(* of an operation (pin levels, bus state, bytes already sent) is a state  *)
(* of the model.                                                           *)
(*                                                                         *)
(* The panel of the source is 280 x 480.  The model keeps the width a      *)
(* multiple of 8, as 280 is, and scales both dimensions down.              *)
(***************************************************************************)
EXTENDS Integers, Sequences, FiniteSets, TLC

VARIABLES
    pc,              \* "idle", or the public method that is running
    prog,            \* the primitive calls the running method has still to make
    op,              \* the call in progress: method, mode, image, state at call
    trace,           \* the primitive calls made so far by the call in progress
    err,             \* "none", or the error the call in progress ended with
    readings,        \* busy-pin readings of the current wait_until_idle
    delays,          \* 10ms delays of the current wait_until_idle
    init_performed,  \* EPD._init_performed
    spiOpen,         \* the SpiDev handle is open
    pinsClaimed,     \* the GPIO channels are set up
    level,           \* level of each output pin, "Z" while not driven
    asleep,          \* sleep() has completed and init() has not begun since
    prevInit,        \* the wire bytes of the last completed call when it was init
    strictCap,       \* the capability libraries reject calls on released resources
    enc              \* the encoder at work on its own: input, buffer, planes

vars == <<pc, prog, op, trace, err, readings, delays, init_performed, spiOpen,
          pinsClaimed, level, asleep, prevInit, strictCap, enc>>

(***************************************************************************)
(* Bounds of the model.                                                    *)
(***************************************************************************)
WidthBytes == 1      \* panel width in bytes (35 in the source)
PanelRows == 2       \* panel height in rows (480 in the source)
MaxPolls == 2        \* most loop iterations of one wait_until_idle
LutLen == 3          \* length of a waveform table

MaxDark == 1         \* most samples of an encoder input that differ from the rest

(***************************************************************************)
(* Constants of epd.py.                                                    *)
(***************************************************************************)
RST_PIN == 17
DC_PIN == 25
CS_PIN == 8
BUSY_PIN == 24

EPD_WIDTH == 8 * WidthBytes
EPD_HEIGHT == PanelRows

MODE_4GRAY == 0
MODE_1GRAY == 1
InvalidModeValue == MODE_1GRAY + 1
Modes == {MODE_4GRAY, MODE_1GRAY, InvalidModeValue}

\* Polarity of the busy-sense line as documented at the polling loop.
BUSY_LEVEL == 0
IDLE_LEVEL == 1

OutPins == {RST_PIN, DC_PIN, CS_PIN}

(***************************************************************************)
(* Waveform tables of module lut: opaque fixed-length byte tables.         *)
(***************************************************************************)
lut_4Gray_GC == [i \in 1..LutLen |-> 16]
lut_1Gray_A2 == [i \in 1..LutLen |-> 32]
lut_1Gray_DU == [i \in 1..LutLen |-> 48]

(***************************************************************************)
(* Primitive calls.  ph marks the position of the call inside a send       *)
(* routine: "dc", "cs0", "wr", "cs1", and "-" outside of one.              *)
(***************************************************************************)
Call(k, pin, val, bytes, cmd, ph) ==
    [k |-> k, pin |-> pin, val |-> val, bytes |-> bytes, cmd |-> cmd, ph |-> ph]

Plain(k) == <<Call(k, 0, 0, <<>>, FALSE, "-")>>

digital_write(pin, value, ph) == <<Call("pin", pin, value, <<>>, FALSE, ph)>>

delay_ms(delaytime) == <<Call("delay", 0, delaytime, <<>>, FALSE, "-")>>

writebytes(bytes, cmd) == <<Call("spi", 0, 0, bytes, cmd, "wr")>>

\* send_command that leaves chip-select low
send_command_keeps_cs_low(command) ==
       digital_write(DC_PIN, 0, "dc")
    \o digital_write(CS_PIN, 0, "cs0")
    \o writebytes(<<command>>, TRUE)

send_command(command) ==
       digital_write(DC_PIN, 0, "dc")
    \o digital_write(CS_PIN, 0, "cs0")
    \o writebytes(<<command>>, TRUE)
    \o digital_write(CS_PIN, 1, "cs1")

send_data(data) ==
       digital_write(DC_PIN, 1, "dc")
    \o digital_write(CS_PIN, 0, "cs0")
    \o writebytes(<<data>>, FALSE)
    \o digital_write(CS_PIN, 1, "cs1")

send_data2(data) ==
       digital_write(DC_PIN, 1, "dc")
    \o digital_write(CS_PIN, 0, "cs0")
    \o writebytes(data, FALSE)
    \o digital_write(CS_PIN, 1, "cs1")

\* send_data on each byte of bs in turn
RECURSIVE send_each(_)
send_each(bs) ==
    IF bs = <<>> THEN <<>> ELSE send_data(Head(bs)) \o send_each(Tail(bs))

\* reset without the settle delay after the pulse
reset_without_settle ==
       digital_write(RST_PIN, 1, "-") \o delay_ms(200)
    \o digital_write(RST_PIN, 0, "-") \o delay_ms(5)
    \o digital_write(RST_PIN, 1, "-")

reset ==
       digital_write(RST_PIN, 1, "-") \o delay_ms(200)
    \o digital_write(RST_PIN, 0, "-") \o delay_ms(5)
    \o digital_write(RST_PIN, 1, "-") \o delay_ms(200)

wait_until_idle == Plain("wait_enter") \o Plain("poll")

sleep ==
       send_command(80) \o send_data(247)
    \o send_command(2)
    \o send_command(7) \o send_data(165)
    \o delay_ms(2000)
    \o Plain("spi_close")
    \o digital_write(RST_PIN, 0, "-")
    \o digital_write(DC_PIN, 0, "-")
    \o Plain("gpio_cleanup")

\* display option bytes sent only by the first init
display_option_once(mode) ==
    IF init_performed THEN <<>>
    ELSE IF mode = MODE_1GRAY
    THEN send_command(55)
         \o send_each(<<0, 255, 255, 255, 255, 79, 255, 255, 255, 255>>)
    ELSE IF mode = MODE_4GRAY
    THEN send_command(55)
         \o send_each(<<0, 0, 0, 0, 0, 0, 0, 0, 0, 0>>)
    ELSE Plain("print")

display_option(mode) ==
    IF mode = MODE_1GRAY
    THEN send_command(55)
         \o send_each(<<0, 255, 255, 255, 255, 79, 255, 255, 255, 255>>)
    ELSE IF mode = MODE_4GRAY
    THEN send_command(55)
         \o send_each(<<0, 0, 0, 0, 0, 0, 0, 0, 0, 0>>)
    ELSE Plain("print")

init(mode) ==
       Plain("gpio_setup")
    \o Plain("spi_open")
    \o reset
    \o send_command(18) \o delay_ms(300)
    \o send_command(70) \o send_data(247) \o wait_until_idle
    \o send_command(71) \o send_data(247) \o wait_until_idle
    \o send_command(1) \o send_each(<<223, 1, 0>>)
    \o send_command(3) \o send_data(0)
    \o send_command(4) \o send_each(<<65, 168, 50>>)
    \o send_command(17) \o send_data(3)
    \o send_command(60) \o send_data(3)
    \o send_command(12) \o send_each(<<174, 199, 195, 192, 192>>)
    \o send_command(24) \o send_data(128)
    \o send_command(44) \o send_data(68)
    \o display_option(mode)
    \o send_command(68) \o send_each(<<0, 0, 23, 1>>)
    \o send_command(69) \o send_each(<<0, 0, 223, 1>>)
    \o send_command(34) \o send_data(207)
    \o Plain("mark_init")

load_lut(lut) == send_command(50) \o send_data2(lut)

(***************************************************************************)
(* Pixel encoder.  An image is the converted PIL image: its size and its   *)
(* samples, px[<<x, y>>] in 0..255.                                        *)
(***************************************************************************)
Pow2(n) == 2 ^ n

\* the byte whose bit b, counted from the most significant, is bit[b]
ByteOfBits(bit) ==
    bit[0] * 128 + bit[1] * 64 + bit[2] * 32 + bit[3] * 16
    + bit[4] * 8 + bit[5] * 4 + bit[6] * 2 + bit[7]

Vertical(im) == im.w = EPD_WIDTH /\ im.h = EPD_HEIGHT
Horizontal(im) == im.w = EPD_HEIGHT /\ im.h = EPD_WIDTH

\* the vertical branch with the mask 0x01 << (x % 8)
Cleared1Gray_lsb_first(im, i, b) ==
    IF Vertical(im)
    THEN \E x \in 0..(im.w - 1), y \in 0..(im.h - 1) :
            /\ im.px[<<x, y>>] = 0
            /\ (x + y * EPD_WIDTH) \div 8 = i
            /\ 7 - (x % 8) = b
    ELSE IF Horizontal(im)
    THEN \E x \in 0..(im.w - 1), y \in 0..(im.h - 1) :
            /\ im.px[<<x, y>>] = 0
            /\ (y + (EPD_HEIGHT - x - 1) * EPD_WIDTH) \div 8 = i
            /\ y % 8 = b
    ELSE FALSE

\* buf[i] loses bit b (mask 0x80 >> b) when some black pixel addresses it
Cleared1Gray(im, i, b) ==
    IF Vertical(im)
    THEN \E x \in 0..(im.w - 1), y \in 0..(im.h - 1) :
            /\ im.px[<<x, y>>] = 0
            /\ (x + y * EPD_WIDTH) \div 8 = i
            /\ x % 8 = b
    ELSE IF Horizontal(im)
    THEN \E x \in 0..(im.w - 1), y \in 0..(im.h - 1) :
            /\ im.px[<<x, y>>] = 0
            /\ (y + (EPD_HEIGHT - x - 1) * EPD_WIDTH) \div 8 = i
            /\ y % 8 = b
    ELSE FALSE

get_frame_buffer_for_size_1Gray(im) ==
    [n \in 1..((EPD_WIDTH \div 8) * EPD_HEIGHT) |->
        ByteOfBits([b \in 0..7 |-> IF Cleared1Gray(im, n - 1, b) THEN 0 ELSE 1])]

\* no remapping of the samples
Remap4Gray_none(p) == p

\* the in-place remapping of a sample before it is packed
Remap4Gray(p) == IF p = 192 THEN 128 ELSE IF p = 128 THEN 64 ELSE p

\* (s0 & 0xc0) | (s1 & 0xc0) >> 2 | (s2 & 0xc0) >> 4 | (s3 & 0xc0) >> 6
Pack4(s0, s1, s2, s3) ==
    (Remap4Gray(s0) \div 64) * 64 + (Remap4Gray(s1) \div 64) * 16
    + (Remap4Gray(s2) \div 64) * 4 + (Remap4Gray(s3) \div 64)

\* position of pixel (x, y) in the order the loops visit the pixels
Visit4Gray(im, x, y) == IF Vertical(im) THEN y * im.w + x ELSE x * im.h + y

\* the pixels at which the counter i is a multiple of 4, so a byte is stored
Stores4Gray(im) ==
    IF Vertical(im) \/ Horizontal(im)
    THEN {p \in (0..(im.w - 1)) \X (0..(im.h - 1)) :
             (Visit4Gray(im, p[1], p[2]) + 1) % 4 = 0}
    ELSE {}

\* the horizontal branch with newy = x
Index4Gray_no_flip(im, x, y) ==
    IF Vertical(im)
    THEN (x + y * EPD_WIDTH) \div 4
    ELSE (y + x * EPD_WIDTH) \div 4

\* the index of buf stored at pixel (x, y)
Index4Gray(im, x, y) ==
    IF Vertical(im)
    THEN (x + y * EPD_WIDTH) \div 4
    ELSE (y + (im.w - x - 1) * EPD_WIDTH) \div 4

\* the byte stored at pixel (x, y)
Value4Gray(im, x, y) ==
    IF Vertical(im)
    THEN Pack4(im.px[<<x - 3, y>>], im.px[<<x - 2, y>>],
               im.px[<<x - 1, y>>], im.px[<<x, y>>])
    ELSE Pack4(im.px[<<x, y - 3>>], im.px[<<x, y - 2>>],
               im.px[<<x, y - 1>>], im.px[<<x, y>>])

get_frame_buffer_for_size_4Gray(im) ==
    [n \in 1..((EPD_WIDTH \div 4) * EPD_HEIGHT) |->
        LET at == {p \in Stores4Gray(im) : Index4Gray(im, p[1], p[2]) = n - 1}
        IN  IF at = {} THEN 255
            ELSE LET last == CHOOSE p \in at : \A q \in at :
                        Visit4Gray(im, q[1], q[2]) <= Visit4Gray(im, p[1], p[2])
                 IN  Value4Gray(im, last[1], last[2])]

get_frame_buffer(image, mode) ==
    IF mode = MODE_1GRAY
    THEN get_frame_buffer_for_size_1Gray(image)
    ELSE get_frame_buffer_for_size_4Gray(image)

(***************************************************************************)
(* Plane derivation of display_4Gray.  A 2-bit sample is 3 for white,      *)
(* 0 for black, 2 for gray1 and 1 for gray2.                               *)
(***************************************************************************)
\* the BW table with the two grays exchanged
BWBit_grays_exchanged(s) ==
    IF s = 3 THEN 1 ELSE IF s = 0 THEN 0 ELSE IF s = 2 THEN 1 ELSE 0

\* the RED table with the two grays exchanged
REDBit_grays_exchanged(s) ==
    IF s = 3 THEN 1 ELSE IF s = 0 THEN 0 ELSE IF s = 2 THEN 0 ELSE 1

BWBit(s) == IF s = 3 THEN 1 ELSE IF s = 0 THEN 0 ELSE IF s = 2 THEN 0 ELSE 1
REDBit(s) == IF s = 3 THEN 1 ELSE IF s = 0 THEN 0 ELSE IF s = 2 THEN 1 ELSE 0

\* the n-th 2-bit sample, n in 0..3 from the most significant, of byte b
Sample(b, n) == (b \div Pow2(2 * (3 - n))) % 4

\* the number of bytes the loops send to one plane
PlaneLen == (EPD_HEIGHT * EPD_WIDTH) \div 8

\* temp3 of iteration i of the BW loop
BWPlaneByte(frame_buffer, i) ==
    ByteOfBits([n \in 0..7 |->
        BWBit(Sample(frame_buffer[i * 2 + (n \div 4) + 1], n % 4))])

\* temp3 of iteration i of the RED loop
REDPlaneByte(frame_buffer, i) ==
    ByteOfBits([n \in 0..7 |->
        REDBit(Sample(frame_buffer[i * 2 + (n \div 4) + 1], n % 4))])

set_counters ==
       send_command(78) \o send_each(<<0, 0>>)
    \o send_command(79) \o send_each(<<0, 0>>)

display_4Gray(frame_buffer) ==
       set_counters
    \o send_command(36)
    \o send_each([n \in 1..PlaneLen |-> BWPlaneByte(frame_buffer, n - 1)])
    \o set_counters
    \o send_command(38)
    \o send_each([n \in 1..PlaneLen |-> REDPlaneByte(frame_buffer, n - 1)])
    \o load_lut(lut_4Gray_GC)
    \o send_command(34) \o send_data(199)
    \o send_command(32)
    \o wait_until_idle

\* display_1Gray that activates before it loads the LUT
display_1Gray_activates_first(frame_buffer) ==
       set_counters
    \o send_command(36)
    \o send_data2(frame_buffer)
    \o send_command(32)
    \o load_lut(lut_1Gray_A2)
    \o wait_until_idle

display_1Gray(frame_buffer) ==
       set_counters
    \o send_command(36)
    \o send_data2(frame_buffer)
    \o load_lut(lut_1Gray_A2)
    \o send_command(32)
    \o wait_until_idle

\* one 0xff for every pixel of a plane
WhitePlane_per_pixel == [n \in 1..(EPD_HEIGHT * EPD_WIDTH) |-> 255]

\* one 0xff for every byte of a plane, row by row
WhitePlane == [n \in 1..(EPD_HEIGHT * (EPD_WIDTH \div 8)) |-> 255]

clear(mode) ==
       set_counters
    \o send_command(36)
    \o send_each(WhitePlane)
    \o (IF mode = MODE_1GRAY
        THEN load_lut(lut_1Gray_DU)
        ELSE IF mode = MODE_4GRAY
        THEN    send_command(38)
             \o send_each(WhitePlane)
             \o load_lut(lut_4Gray_GC)
             \o send_command(34) \o send_data(199)
        ELSE Plain("print"))
    \o send_command(32)
    \o wait_until_idle

\* display_frame that initialises on every call
display_frame_always_inits(image, mode) ==
       init(MODE_4GRAY)
    \o (IF mode = MODE_1GRAY
        THEN display_1Gray(get_frame_buffer(image, mode))
        ELSE IF mode = MODE_4GRAY
        THEN display_4Gray(get_frame_buffer(image, mode))
        ELSE Plain("print"))

\* init is called without argument, so with its default mode
display_frame(image, mode) ==
       (IF ~init_performed THEN init(MODE_4GRAY) ELSE <<>>)
    \o (IF mode = MODE_1GRAY
        THEN display_1Gray(get_frame_buffer(image, mode))
        ELSE IF mode = MODE_4GRAY
        THEN display_4Gray(get_frame_buffer(image, mode))
        ELSE Plain("print"))

(***************************************************************************)
(* Inputs of the driver specification.                                     *)
(***************************************************************************)
Pixels(w, h) == (0..(w - 1)) \X (0..(h - 1))

\* converted images of mode '1': samples 0 and 255
Images1 ==
    { [w |-> EPD_WIDTH, h |-> EPD_HEIGHT,
       px |-> [p \in Pixels(EPD_WIDTH, EPD_HEIGHT) |-> 255]],
      [w |-> EPD_WIDTH, h |-> EPD_HEIGHT,
       px |-> [p \in Pixels(EPD_WIDTH, EPD_HEIGHT) |->
                  IF (p[1] + p[2]) % 2 = 0 THEN 0 ELSE 255]],
      [w |-> EPD_WIDTH, h |-> EPD_HEIGHT + 1,
       px |-> [p \in Pixels(EPD_WIDTH, EPD_HEIGHT + 1) |-> 0]] }

\* the grid of the panel's size with every sample v
Uniform(v) ==
    [w |-> EPD_WIDTH, h |-> EPD_HEIGHT,
     px |-> [p \in Pixels(EPD_WIDTH, EPD_HEIGHT) |-> v]]

\* converted images of mode 'L': the four gray levels
ImagesL ==
    { Uniform(255), Uniform(0), Uniform(128),
      [w |-> EPD_WIDTH, h |-> EPD_HEIGHT,
       px |-> [p \in Pixels(EPD_WIDTH, EPD_HEIGHT) |->
                  <<0, 128, 192, 255>>[((p[1] + p[2]) % 4) + 1]]],
      [w |-> EPD_WIDTH, h |-> EPD_HEIGHT + 1,
       px |-> [p \in Pixels(EPD_WIDTH, EPD_HEIGHT + 1) |-> 0]] }

\* image.convert('1') for OneBit, image.convert('L') otherwise
ConvertedImages(mode) == IF mode = MODE_1GRAY THEN Images1 ELSE ImagesL

(***************************************************************************)
(* The state machine.                                                      *)
(***************************************************************************)
HiZ == 0 - 1

NoImage == [w |-> 0, h |-> 0, px |-> [p \in {} |-> 0]]
NoOp == [name |-> "none", mode |-> 0, image |-> NoImage,
         initAtCall |-> FALSE, asleepAtCall |-> FALSE]
NoInit == [mode |-> 0 - 1, wire |-> <<>>]
NoEnc == [stage |-> "none", mode |-> 0, image |-> NoImage,
          buf |-> <<>>, bw |-> <<>>, red |-> <<>>]

\* what a primitive call leaves in the trace: the call and the state it met
Event(c) ==
    [k |-> c.k, pin |-> c.pin, val |-> c.val, bytes |-> c.bytes, cmd |-> c.cmd,
     dc |-> level[DC_PIN], cs |-> level[CS_PIN], open |-> spiOpen,
     claimed |-> pinsClaimed]

\* the bus writes of a trace
Wire(tr) == SelectSeq(tr, LAMBDA e : e.k = "spi")

Init ==
    /\ pc = "idle"
    /\ prog = <<>>
    /\ op = NoOp
    /\ trace = <<>>
    /\ err = "none"
    /\ readings = <<>>
    /\ delays = 0
    /\ init_performed = FALSE
    /\ spiOpen = FALSE
    /\ pinsClaimed = FALSE
    /\ level = [p \in OutPins |-> HiZ]
    /\ asleep = FALSE
    /\ prevInit = NoInit
    /\ strictCap \in BOOLEAN
    /\ enc = NoEnc

\* a public method is entered
Enter(name, mode, image, calls) ==
    /\ pc = "idle"
    /\ pc' = name
    /\ prog' = calls
    /\ op' = [name |-> name, mode |-> mode, image |-> image,
              initAtCall |-> init_performed, asleepAtCall |-> asleep]
    /\ trace' = <<>>
    /\ err' = "none"
    /\ readings' = <<>>
    /\ delays' = 0
    /\ UNCHANGED <<init_performed, spiOpen, pinsClaimed, level, asleep,
                   prevInit, strictCap, enc>>

CallInit == \E mode \in Modes : Enter("init", mode, NoImage, init(mode))

CallDisplayFrame ==
    \E mode \in Modes : \E image \in ConvertedImages(mode) :
        Enter("display_frame", mode, image, display_frame(image, mode))

CallClear == \E mode \in Modes : Enter("clear", mode, NoImage, clear(mode))

CallSleep == Enter("sleep", 0, NoImage, sleep)

Running == pc # "idle" /\ prog # <<>>

\* the capability library refuses the call: pins not set up, or bus closed
Refused(c) ==
    /\ strictCap
    /\ \/ c.k \in {"pin", "poll"} /\ ~pinsClaimed
       \/ c.k = "spi" /\ ~spiOpen

\* the next primitive call is of kind k and is carried out
Next_is(k) == Running /\ Head(prog).k = k /\ ~Refused(Head(prog))

Advance ==
    /\ prog' = Tail(prog)
    /\ trace' = Append(trace, Event(Head(prog)))

RaiseCapabilityError ==
    /\ Running
    /\ Refused(Head(prog))
    /\ prog' = <<>>
    /\ err' = "BusFailure"
    /\ UNCHANGED <<pc, op, trace, readings, delays, init_performed, spiOpen,
                   pinsClaimed, level, asleep, prevInit, strictCap, enc>>

StepPin ==
    /\ Next_is("pin")
    /\ Advance
    /\ level' = [level EXCEPT ![Head(prog).pin] = Head(prog).val]
    /\ UNCHANGED <<pc, op, err, readings, delays, init_performed, spiOpen,
                   pinsClaimed, asleep, prevInit, strictCap, enc>>

StepSpiWrite ==
    /\ Next_is("spi")
    /\ Advance
    /\ UNCHANGED <<pc, op, err, readings, delays, init_performed, spiOpen,
                   pinsClaimed, level, asleep, prevInit, strictCap, enc>>

StepDelay ==
    /\ Next_is("delay")
    /\ Advance
    /\ UNCHANGED <<pc, op, err, readings, delays, init_performed, spiOpen,
                   pinsClaimed, level, asleep, prevInit, strictCap, enc>>

StepPrint ==
    /\ Next_is("print")
    /\ Advance
    /\ UNCHANGED <<pc, op, err, readings, delays, init_performed, spiOpen,
                   pinsClaimed, level, asleep, prevInit, strictCap, enc>>

StepGpioSetup ==
    /\ Next_is("gpio_setup")
    /\ Advance
    /\ pinsClaimed' = TRUE
    /\ asleep' = FALSE
    /\ UNCHANGED <<pc, op, err, readings, delays, init_performed, spiOpen,
                   level, prevInit, strictCap, enc>>

StepSpiOpen ==
    /\ Next_is("spi_open")
    /\ Advance
    /\ spiOpen' = TRUE
    /\ UNCHANGED <<pc, op, err, readings, delays, init_performed, pinsClaimed,
                   level, asleep, prevInit, strictCap, enc>>

StepSpiClose ==
    /\ Next_is("spi_close")
    /\ Advance
    /\ spiOpen' = FALSE
    /\ UNCHANGED <<pc, op, err, readings, delays, init_performed, pinsClaimed,
                   level, asleep, prevInit, strictCap, enc>>

StepGpioCleanup ==
    /\ Next_is("gpio_cleanup")
    /\ Advance
    /\ pinsClaimed' = FALSE
    /\ level' = [p \in OutPins |-> HiZ]
    /\ UNCHANGED <<pc, op, err, readings, delays, init_performed, spiOpen,
                   asleep, prevInit, strictCap, enc>>

StepMarkInit ==
    /\ Next_is("mark_init")
    /\ Advance
    /\ init_performed' = TRUE
    /\ UNCHANGED <<pc, op, err, readings, delays, spiOpen, pinsClaimed, level,
                   asleep, prevInit, strictCap, enc>>

\* wait_until_idle is entered
StepWaitEnter ==
    /\ Next_is("wait_enter")
    /\ Advance
    /\ readings' = <<>>
    /\ delays' = 0
    /\ UNCHANGED <<pc, op, err, init_performed, spiOpen, pinsClaimed, level,
                   asleep, prevInit, strictCap, enc>>

\* digital_read(BUSY_PIN) == 1: the loop body runs, delay_ms(10)
PollAgain ==
    /\ Next_is("poll")
    /\ delays < MaxPolls
    /\ readings' = Append(readings, 1)
    /\ delays' = delays + 1
    /\ UNCHANGED <<pc, prog, op, trace, err, init_performed, spiOpen,
                   pinsClaimed, level, asleep, prevInit, strictCap, enc>>

\* digital_read(BUSY_PIN) is not 1: the loop ends, wait_until_idle returns
PollExit ==
    /\ Next_is("poll")
    /\ Advance
    /\ readings' = Append(readings, 0)
    /\ UNCHANGED <<pc, op, err, delays, init_performed, spiOpen, pinsClaimed,
                   level, asleep, prevInit, strictCap, enc>>

Completed == pc # "idle" /\ prog = <<>>

\* the public method returns, or its error reaches the caller
Return ==
    /\ Completed
    /\ pc' = "idle"
    /\ prevInit' = IF pc = "init" /\ err = "none"
                   THEN [mode |-> op.mode, wire |-> Wire(trace)]
                   ELSE NoInit
    /\ asleep' = IF pc = "sleep" /\ err = "none" THEN TRUE ELSE asleep
    /\ op' = NoOp
    /\ trace' = <<>>
    /\ err' = "none"
    /\ readings' = <<>>
    /\ delays' = 0
    /\ UNCHANGED <<prog, init_performed, spiOpen, pinsClaimed, level, strictCap, enc>>

Next ==
    \/ CallInit
    \/ CallDisplayFrame
    \/ CallClear
    \/ CallSleep
    \/ RaiseCapabilityError
    \/ StepPin
    \/ StepSpiWrite
    \/ StepDelay
    \/ StepPrint
    \/ StepGpioSetup
    \/ StepSpiOpen
    \/ StepSpiClose
    \/ StepGpioCleanup
    \/ StepMarkInit
    \/ StepWaitEnter
    \/ PollAgain
    \/ PollExit
    \/ Return

Spec == Init /\ [][Next]_vars

(***************************************************************************)
(* The encoder and the plane derivation on their own: the input is drawn   *)
(* at the start, Encode applies _get_frame_buffer, DerivePlanes the two    *)
(* loops of display_4Gray.                                                 *)
(***************************************************************************)
\* the subsets of P with at most k elements
RECURSIVE SmallSets(_, _)
SmallSets(P, k) ==
    IF k = 0 THEN {{}}
    ELSE LET r == SmallSets(P, k - 1)
         IN  r \cup {t \cup {p} : t \in r, p \in P}

\* the sizes of the inputs: the panel's, the transposed, and one that is neither
EncSizes ==
    {<<EPD_WIDTH, EPD_HEIGHT>>, <<EPD_HEIGHT, EPD_WIDTH>>,
     <<EPD_WIDTH, EPD_HEIGHT + 1>>}

\* the sample most of a converted grid has: 0 or 255 in mode '1', 8 bits in 'L'
EncBase(mode) == IF mode = MODE_1GRAY THEN {0, 255} ELSE {255, 128}

\* the samples the others have
EncSamples(mode) ==
    IF mode = MODE_1GRAY THEN {0, 255} ELSE {0, 64, 128, 192}

\* grids of sample b with at most MaxDark samples v; a grid of neither size is
\* encoded without being read, so those are of one sample
EncImages(mode) ==
    UNION {
        UNION {
            {[w |-> d[1], h |-> d[2],
              px |-> [p \in Pixels(d[1], d[2]) |-> IF p \in t THEN v ELSE b]] :
                t \in IF d[2] = EPD_HEIGHT + 1
                      THEN {{}}
                      ELSE SmallSets(Pixels(d[1], d[2]), MaxDark),
                v \in EncSamples(mode) \ {b}} :
            b \in EncBase(mode)} :
        d \in EncSizes}

InitEnc ==
    /\ pc = "idle"
    /\ prog = <<>>
    /\ op = NoOp
    /\ trace = <<>>
    /\ err = "none"
    /\ readings = <<>>
    /\ delays = 0
    /\ init_performed = FALSE
    /\ spiOpen = FALSE
    /\ pinsClaimed = FALSE
    /\ level = [p \in OutPins |-> HiZ]
    /\ asleep = FALSE
    /\ prevInit = NoInit
    /\ strictCap = FALSE
    /\ \E mode \in {MODE_1GRAY, MODE_4GRAY} : \E image \in EncImages(mode) :
           enc = [stage |-> "input", mode |-> mode, image |-> image,
                  buf |-> <<>>, bw |-> <<>>, red |-> <<>>]

Encode ==
    /\ enc.stage = "input"
    /\ enc' = [enc EXCEPT !.stage = "encoded",
                          !.buf = get_frame_buffer(enc.image, enc.mode)]
    /\ UNCHANGED <<pc, prog, op, trace, err, readings, delays, init_performed,
                   spiOpen, pinsClaimed, level, asleep, prevInit, strictCap>>

DerivePlanes ==
    /\ enc.stage = "encoded"
    /\ enc.mode = MODE_4GRAY
    /\ enc' = [enc EXCEPT
                 !.stage = "derived",
                 !.bw = [n \in 1..PlaneLen |-> BWPlaneByte(enc.buf, n - 1)],
                 !.red = [n \in 1..PlaneLen |-> REDPlaneByte(enc.buf, n - 1)]]
    /\ UNCHANGED <<pc, prog, op, trace, err, readings, delays, init_performed,
                   spiOpen, pinsClaimed, level, asleep, prevInit, strictCap>>

NextEnc == Encode \/ DerivePlanes

SpecEnc == InitEnc /\ [][NextEnc]_vars

(***************************************************************************)
(* Vocabulary of the properties.                                           *)
(***************************************************************************)
\* The driver state the code keeps: _init_performed and nothing else.
DriverState == IF init_performed THEN "Ready" ELSE "Uninitialized"

IsCmd(e, c) == e.k = "spi" /\ e.cmd /\ e.bytes = <<c>>
IsData(e, d) == e.k = "spi" /\ ~e.cmd /\ e.bytes = <<d>>

\* the opcodes of a wire trace, in order
RECURSIVE Opcodes(_)
Opcodes(W) ==
    IF W = <<>> THEN <<>>
    ELSE IF Head(W).cmd THEN <<Head(W).bytes[1]>> \o Opcodes(Tail(W))
    ELSE Opcodes(Tail(W))

\* the bytes of a wire trace, in order
RECURSIVE Flat(_)
Flat(W) == IF W = <<>> THEN <<>> ELSE Head(W).bytes \o Flat(Tail(W))

\* the position of the first opcode after position i, or one past the end
NextCmd(W, i) ==
    LET later == {j \in (i + 1)..Len(W) : W[j].cmd}
    IN  IF later = {} THEN Len(W) + 1
        ELSE CHOOSE j \in later : \A k \in later : j <= k

\* the operand or data bytes that follow the opcode at position i
DataFrom(W, i) == Flat(SubSeq(W, i + 1, NextCmd(W, i) - 1))

\* the positions of opcode c in a wire trace
At(W, c) == {i \in 1..Len(W) : IsCmd(W[i], c)}

\* the position of the first occurrence of opcode c, 0 when there is none
First(W, c) ==
    IF At(W, c) = {} THEN 0 ELSE CHOOSE i \in At(W, c) : \A j \in At(W, c) : i <= j

\* the positions of the trace at which a call of kind k was made
Made(tr, k) == {i \in 1..Len(tr) : tr[i].k = k}

\* wait_until_idle has just returned
WaitReturned == trace # <<>> /\ trace[Len(trace)].k = "poll"

\* the next primitive call is in the middle of a send routine
InSend == Running /\ Head(prog).ph \in {"cs0", "wr", "cs1"}

(***************************************************************************)
(* C1.  After sleep() has completed and before any later init(), a call of *)
(* display_frame fails with a NotReady error and puts no byte on the bus.  *)
(* The code keeps no Sleeping state, so this is violated.                  *)
(***************************************************************************)
C1_SleepingDisplayIsRejected ==
    (pc = "display_frame" /\ op.asleepAtCall) =>
        /\ Wire(trace) = <<>>
        /\ Completed => err = "NotReady"

(***************************************************************************)
(* C2.  display_frame on a driver on which init was never performed runs   *)
(* the complete init sequence, ending with opcode 0x22 and operand 0xCF,   *)
(* before its first RAM-counter opcode 0x4E; display_frame on a driver on  *)
(* which init was performed issues nothing of the init sequence.           *)
(***************************************************************************)
InitOnlyOpcodes == {18, 70, 71, 1, 3, 4, 17, 60, 12, 24, 44, 55, 68, 69}

InitOpcodes(mode) ==
    <<18, 70, 71, 1, 3, 4, 17, 60, 12, 24, 44>>
    \o (IF mode \in {MODE_1GRAY, MODE_4GRAY} THEN <<55>> ELSE <<>>)
    \o <<68, 69, 34>>

C2_AutoInitBeforeDisplay ==
    pc = "display_frame" =>
        LET W == Wire(trace)
            f == First(W, 78)
        IN  /\ (~op.initAtCall /\ f > 0) =>
                /\ init_performed
                /\ f > 2
                /\ IsCmd(W[f - 2], 34) /\ IsData(W[f - 1], 207)
                /\ IsCmd(W[1], 18)
                /\ Opcodes(SubSeq(W, 1, f - 1)) = InitOpcodes(MODE_4GRAY)
            /\ op.initAtCall =>
                /\ \A i \in 1..Len(W) :
                       W[i].cmd => W[i].bytes[1] \notin InitOnlyOpcodes
                /\ W # <<>> => IsCmd(W[1], 78)
                /\ \A i \in 1..Len(trace) :
                       trace[i].k \notin {"gpio_setup", "spi_open", "mark_init"}
                /\ \A i \in 1..Len(trace) :
                       ~(trace[i].k = "pin" /\ trace[i].pin = RST_PIN)

C2_Witness ==
    /\ pc = "display_frame"
    /\ ~op.initAtCall
    /\ op.mode = MODE_1GRAY
    /\ Completed
    /\ err = "none"
    /\ First(Wire(trace), 78) > 0

(***************************************************************************)
(* C3.  Every run of init: the reset pulse (RST high, 200ms, low, 5ms,     *)
(* high, 200ms) completes before any bus byte; the first bus byte is       *)
(* opcode 0x12, followed by a 300ms delay; then 0x46 and 0x47, each with   *)
(* its operand and then a wait-until-idle; then the configuration opcodes, *)
(* each followed by all of its operands before the next opcode; the last   *)
(* two bus bytes are 0x22 and 0xCF, and only then is the driver Ready.     *)
(***************************************************************************)
\* operand count of each opcode of the init sequence
Operands(c) ==
    CASE c = 18 -> 0
      [] c \in {70, 71, 3, 17, 60, 24, 44, 34} -> 1
      [] c \in {1, 4} -> 3
      [] c = 12 -> 5
      [] c = 55 -> 10
      [] c \in {68, 69} -> 4
      [] OTHER -> 0

RunsInit == pc = "init" \/ (pc = "display_frame" /\ ~op.initAtCall)

\* the part of the trace that init made
InitPart ==
    IF Made(trace, "mark_init") = {} THEN trace
    ELSE SubSeq(trace, 1, CHOOSE i \in Made(trace, "mark_init") : TRUE)

InitMode == IF pc = "init" THEN op.mode ELSE MODE_4GRAY

PinDelay(e) == <<e.k, e.pin, e.val>>

C3_InitOrder ==
    RunsInit =>
        LET T == InitPart
            W == Wire(T)
            s == Made(T, "spi")
            first == IF s = {} THEN 0 ELSE CHOOSE i \in s : \A j \in s : i <= j
        IN  /\ first > 0 =>
                /\ first > 8
                /\ [i \in 1..6 |-> PinDelay(T[i + 2])]
                     = << <<"pin", RST_PIN, 1>>, <<"delay", 0, 200>>,
                          <<"pin", RST_PIN, 0>>, <<"delay", 0, 5>>,
                          <<"pin", RST_PIN, 1>>, <<"delay", 0, 200>> >>
                /\ IsCmd(T[first], 18)
                /\ Len(T) >= first + 2 => PinDelay(T[first + 2]) = <<"delay", 0, 300>>
            \* the opcodes come in the fixed order
            /\ Opcodes(W) = SubSeq(InitOpcodes(InitMode), 1, Len(Opcodes(W)))
            \* every opcode has all its operands before the next opcode
            /\ \A i \in 1..Len(W) :
                   (W[i].cmd /\ NextCmd(W, i) <= Len(W)) =>
                       Len(DataFrom(W, i)) = Operands(W[i].bytes[1])
            \* a wait-until-idle returns after 0x46 F7 and after 0x47 F7
            /\ LET B == SelectSeq(T, LAMBDA e : e.k \in {"spi", "poll"})
               IN  \A i \in 1..Len(B) :
                       (IsCmd(B[i], 70) \/ IsCmd(B[i], 71)) =>
                           /\ Len(B) > i => IsData(B[i + 1], 247)
                           /\ Len(B) > i + 1 => B[i + 2].k = "poll"
            \* Ready only after 0x22 0xCF, the last two bus bytes
            /\ Made(T, "mark_init") # {} =>
                /\ Len(W) >= 2
                /\ IsCmd(W[Len(W) - 1], 34)
                /\ IsData(W[Len(W)], 207)
                /\ Len(DataFrom(W, Len(W) - 1)) = 1
            /\ (Made(T, "mark_init") = {} /\ ~op.initAtCall) => ~init_performed

C3_Witness ==
    /\ pc = "init"
    /\ op.mode = MODE_1GRAY
    /\ Completed
    /\ err = "none"
    /\ init_performed
    /\ Made(trace, "poll") # {}

(***************************************************************************)
(* C4.  Two calls of init in a row with the same argument put the same     *)
(* bytes, with the same data/command-select levels, on the bus in the same *)
(* order, and the driver is Ready after each of them.                      *)
(***************************************************************************)
C4_InitTwiceSameWire ==
    (pc = "init" /\ Completed /\ err = "none") =>
        /\ DriverState = "Ready"
        /\ prevInit.mode = op.mode => Wire(trace) = prevInit.wire

C4_Witness ==
    /\ pc = "init"
    /\ Completed
    /\ err = "none"
    /\ prevInit.mode = op.mode
    /\ op.mode = MODE_4GRAY
    /\ Len(prevInit.wire) > 2

(***************************************************************************)
(* C5.  A byte is written to the bus only while chip-select is 0; then     *)
(* data/command-select is 0 exactly when the byte is an opcode and 1       *)
(* exactly when it is an operand or frame data; chip-select is back at 1   *)
(* after every send.  As stated, chip-select is 1 whenever no send is in   *)
(* progress: violated before the first send and after the pins' release.   *)
(***************************************************************************)
FramingOfWrites ==
    \A i \in 1..Len(trace) :
        trace[i].k = "spi" =>
            /\ trace[i].cs = 0
            /\ trace[i].cmd <=> trace[i].dc = 0
            /\ ~trace[i].cmd <=> trace[i].dc = 1
            /\ i < Len(trace) =>
                   (trace[i + 1].k = "pin" /\ trace[i + 1].pin = CS_PIN
                    /\ trace[i + 1].val = 1)

C5_ChipSelectFraming ==
    /\ FramingOfWrites
    /\ ~InSend => level[CS_PIN] = 1

\* C5 as amended: chip-select is 1 between sends whenever the driver has
\* driven it since the pins were last released.
C5_ChipSelectFramingWhileDriven ==
    /\ FramingOfWrites
    /\ (~InSend /\ level[CS_PIN] # HiZ) => level[CS_PIN] = 1

C5_Witness ==
    /\ ~InSend
    /\ level[CS_PIN] = 1
    /\ \E i \in 1..Len(trace) : trace[i].k = "spi" /\ trace[i].cmd
    /\ \E i \in 1..Len(trace) : trace[i].k = "spi" /\ ~trace[i].cmd

(***************************************************************************)
(* C6.  display_frame on a Ready driver, in either mode, issues in this    *)
(* order: the RAM counters set to the origin (0x4E 0,0 then 0x4F 0,0);     *)
(* 0x24 followed by the BW plane bytes; for FourLevel only, 0x26 followed  *)
(* by the RED plane bytes; 0x32 followed by the LUT of the mode; for       *)
(* FourLevel only, 0x22 with operand 0xC7; then 0x20 exactly once, as the  *)
(* last opcode; then a wait-until-idle before it returns.  (FourLevel      *)
(* sets the RAM counters a second time, between the two planes.)           *)
(***************************************************************************)
\* the opcodes of W that are not RAM-counter opcodes
OtherOpcodes(W) == SelectSeq(Opcodes(W), LAMBDA c : c \notin {78, 79})

\* the last bus write is made before wait_until_idle is entered for the last
\* time, and the trace ends with the return of that wait
EndsWithWait(tr) ==
    /\ tr # <<>>
    /\ tr[Len(tr)].k = "poll"
    /\ Len(tr) >= 2
    /\ tr[Len(tr) - 1].k = "wait_enter"

C6_DisplayOrder ==
    (/\ pc = "display_frame"
     /\ op.initAtCall
     /\ op.mode \in {MODE_1GRAY, MODE_4GRAY}
     /\ Completed
     /\ err = "none") =>
        LET W == Wire(trace)
            frame == get_frame_buffer(op.image, op.mode)
            four == op.mode = MODE_4GRAY
        IN  /\ Len(W) >= 7
            /\ IsCmd(W[1], 78) /\ IsData(W[2], 0) /\ IsData(W[3], 0)
            /\ IsCmd(W[4], 79) /\ IsData(W[5], 0) /\ IsData(W[6], 0)
            /\ IsCmd(W[7], 36)
            /\ OtherOpcodes(W) =
                   IF four THEN <<36, 38, 50, 34, 32>> ELSE <<36, 50, 32>>
            /\ DataFrom(W, 7) =
                   IF four THEN [n \in 1..PlaneLen |-> BWPlaneByte(frame, n - 1)]
                   ELSE frame
            /\ Len(DataFrom(W, 7)) = PlaneLen
            /\ four =>
                /\ DataFrom(W, First(W, 38)) =
                       [n \in 1..PlaneLen |-> REDPlaneByte(frame, n - 1)]
                /\ DataFrom(W, First(W, 34)) = <<199>>
            /\ DataFrom(W, First(W, 50)) =
                   IF four THEN lut_4Gray_GC ELSE lut_1Gray_A2
            /\ IsCmd(W[Len(W)], 32)
            /\ Cardinality(At(W, 32)) = 1
            /\ EndsWithWait(trace)

C6_Witness ==
    /\ pc = "display_frame"
    /\ op.initAtCall
    /\ op.mode = MODE_4GRAY
    /\ Completed
    /\ err = "none"
    /\ At(Wire(trace), 38) # {}

(***************************************************************************)
(* C7.  clear(mode) writes exactly ceil(width/8)*height bytes, all 0xFF,   *)
(* after 0x24, and for FourLevel as many 0xFF bytes after 0x26; then       *)
(* exactly one LUT load (0x32) and exactly one activation 0x20, and then a *)
(* wait-until-idle.                                                        *)
(***************************************************************************)
CeilDiv(a, b) == (a + b - 1) \div b

AllWhite(bs, n) == Len(bs) = n /\ \A i \in 1..Len(bs) : bs[i] = 255

C7_ClearWritesWhite ==
    (/\ pc = "clear"
     /\ op.mode \in {MODE_1GRAY, MODE_4GRAY}
     /\ Completed
     /\ err = "none") =>
        LET W == Wire(trace)
            n == CeilDiv(EPD_WIDTH, 8) * EPD_HEIGHT
        IN  /\ Cardinality(At(W, 36)) = 1
            /\ AllWhite(DataFrom(W, First(W, 36)), n)
            /\ IF op.mode = MODE_4GRAY
               THEN /\ Cardinality(At(W, 38)) = 1
                    /\ First(W, 36) < First(W, 38)
                    /\ AllWhite(DataFrom(W, First(W, 38)), n)
                    /\ First(W, 38) < First(W, 50)
               ELSE At(W, 38) = {}
            /\ Cardinality(At(W, 50)) = 1
            /\ Cardinality(At(W, 32)) = 1
            /\ First(W, 36) < First(W, 50)
            /\ First(W, 50) < First(W, 32)
            /\ DataFrom(W, First(W, 50)) =
                   IF op.mode = MODE_4GRAY THEN lut_4Gray_GC ELSE lut_1Gray_DU
            /\ IsCmd(W[Len(W)], 32)
            /\ EndsWithWait(trace)

C7_Witness ==
    /\ pc = "clear"
    /\ op.mode = MODE_1GRAY
    /\ Completed
    /\ err = "none"
    /\ At(Wire(trace), 36) # {}

(***************************************************************************)
(* C8.  sleep() does, in this order: the deep-sleep opcode with check byte *)
(* 0xA5, then power-off, then a 2000ms delay, then release of the bus,     *)
(* then RST and DC driven low, then release of all pins; no byte is        *)
(* written after the bus is released; the driver state is Sleeping when    *)
(* sleep returns.  The code powers off before the deep-sleep opcode and    *)
(* keeps no Sleeping state, so this is violated.                           *)
(***************************************************************************)
\* the only position of the trace that satisfies P, 0 when there is not one
Only(S) == IF Cardinality(S) = 1 THEN CHOOSE i \in S : TRUE ELSE 0

C8_SleepOrder ==
    (pc = "sleep" /\ Completed /\ err = "none") =>
        LET T == trace
            check == Only({i \in 1..Len(T) : IsData(T[i], 165)})
            off == Only({i \in 1..Len(T) : IsCmd(T[i], 2)})
            wait == Only({i \in 1..Len(T) : PinDelay(T[i]) = <<"delay", 0, 2000>>})
            close == Only(Made(T, "spi_close"))
            rst == Only({i \in 1..Len(T) : PinDelay(T[i]) = <<"pin", RST_PIN, 0>>})
            dc == Only({i \in 1..Len(T) :
                          T[i].ph = "-" /\ PinDelay(T[i]) = <<"pin", DC_PIN, 0>>})
            cleanup == Only(Made(T, "gpio_cleanup"))
        IN  /\ 4 < check
            /\ T[check - 4].k = "spi" /\ T[check - 4].cmd
            /\ check < off
            /\ off < wait
            /\ wait < close
            /\ close < rst
            /\ close < dc
            /\ rst < cleanup
            /\ dc < cleanup
            /\ \A i \in 1..Len(T) : T[i].k = "spi" => i < close
            /\ DriverState = "Sleeping"

(***************************************************************************)
(* C9.  wait_until_idle makes exactly one 10ms delay for each busy reading *)
(* of the busy-sense line that precedes the first idle reading, and        *)
(* returns at the first idle reading: 2 delays for the readings            *)
(* [busy, busy, idle], none when the first reading is idle.  The loop      *)
(* delays while the line reads 1, the level documented as idle, so this is *)
(* violated.                                                               *)
(***************************************************************************)
FirstIdle(rs) ==
    LET idle == {i \in 1..Len(rs) : rs[i] = IDLE_LEVEL}
    IN  IF idle = {} THEN 0 ELSE CHOOSE i \in idle : \A j \in idle : i <= j

C9_DelayPerBusyReading ==
    WaitReturned =>
        /\ FirstIdle(readings) = Len(readings)
        /\ delays = Cardinality({i \in 1..(Len(readings) - 1) :
                                    readings[i] = BUSY_LEVEL})

(***************************************************************************)
(* C10.  The busy-poll is the only unbounded wait: when the line reads     *)
(* idle at a poll the wait ends, so every call of init, display_frame and  *)
(* clear terminates if the line eventually reads idle; and the wait ends   *)
(* on no other reading, so it never returns if the line never reads idle.  *)
(* The loop ends on a reading other than 1, the level documented as idle   *)
(* (see C9), so this is violated.                                          *)
(***************************************************************************)
C10_IdleReadingEndsWait ==
    [][(Running /\ Head(prog).k = "poll" /\ Len(readings') = Len(readings) + 1) =>
          (prog' = Tail(prog) <=> readings'[Len(readings')] = IDLE_LEVEL)]_vars

(***************************************************************************)
(* C11.  init, display_frame or clear called with a mode that is neither   *)
(* OneBit nor FourLevel signals an InvalidMode error to the caller.  The   *)
(* code prints "error no mode" and carries on, so this is violated.        *)
(***************************************************************************)
ValidMode(mode) == mode \in {MODE_1GRAY, MODE_4GRAY}

C11_InvalidModeIsSignalled ==
    (/\ pc \in {"init", "display_frame", "clear"}
     /\ ~ValidMode(op.mode)
     /\ Completed) => err = "InvalidMode"

(***************************************************************************)
(* C12.  When the grid matches the panel geometry in neither orientation   *)
(* the encoder yields a DimensionMismatch error in both modes: it returns  *)
(* no buffer, and display_frame writes no frame data to panel RAM.  The    *)
(* code returns the all-0xFF buffer and displays it, so this is violated.  *)
(***************************************************************************)
C12_WrongDimensionsAreRejected ==
    (/\ pc = "display_frame"
     /\ ValidMode(op.mode)
     /\ ~Vertical(op.image)
     /\ ~Horizontal(op.image)) =>
        /\ At(Wire(trace), 36) = {}
        /\ At(Wire(trace), 38) = {}
        /\ Completed => err = "DimensionMismatch"

(***************************************************************************)
(* C18.  For any sequence of init, display_frame, clear and sleep, every   *)
(* byte is written to the bus while the bus is open and every pin is       *)
(* written while the pins are claimed.  clear() before any init, and any   *)
(* call after sleep(), write without a check, so this is violated.         *)
(***************************************************************************)
C18_WritesOnlyWhileOpenAndClaimed ==
    \A i \in 1..Len(trace) :
        /\ trace[i].k = "spi" => trace[i].open
        /\ trace[i].k = "pin" => trace[i].claimed

(***************************************************************************)
(* C19.  When display_frame initialises the driver itself, the operands it *)
(* sends with opcode 0x37 are those of the mode passed to display_frame.   *)
(* display_frame calls init() without the mode, so this is violated for    *)
(* OneBit frames.                                                          *)
(***************************************************************************)
DisplayOptionBlock(mode) ==
    IF mode = MODE_1GRAY
    THEN <<0, 255, 255, 255, 255, 79, 255, 255, 255, 255>>
    ELSE <<0, 0, 0, 0, 0, 0, 0, 0, 0, 0>>

C19_AutoInitUsesFrameMode ==
    (/\ pc = "display_frame"
     /\ ~op.initAtCall
     /\ ValidMode(op.mode)
     /\ Made(trace, "mark_init") # {}) =>
        LET W == Wire(trace)
        IN  /\ First(W, 55) > 0
            /\ DataFrom(W, First(W, 55)) = DisplayOptionBlock(op.mode)

(***************************************************************************)
(* C20.  No operation called with an invalid mode issues MASTER_ACTIVATION *)
(* 0x20.  clear() sends 0x20 after its "error no mode" branch, so this is  *)
(* violated.                                                               *)
(***************************************************************************)
C20_InvalidModeNeverActivates ==
    (/\ pc \in {"init", "display_frame", "clear"}
     /\ ~ValidMode(op.mode)) => At(Wire(trace), 32) = {}

(***************************************************************************)
(* C13.  For every OneBit grid of exactly width by height pixels the       *)
(* buffer has length ceil(width/8)*height, and for every pixel (x, y) the  *)
(* bit (x + y*width) % 8, counted from the most significant, of byte       *)
(* (x + y*width) / 8 is 0 if and only if the pixel is black; all other     *)
(* bits are 1.                                                             *)
(***************************************************************************)
\* bit b, counted from the most significant, of a byte
BitOf(byte, b) == (byte \div Pow2(7 - b)) % 2

Encoded == enc.stage \in {"encoded", "derived"}

Rotated(im) ==
    [w |-> EPD_WIDTH, h |-> EPD_HEIGHT,
     px |-> [q \in Pixels(EPD_WIDTH, EPD_HEIGHT) |->
                im.px[<<EPD_HEIGHT - 1 - q[2], q[1]>>]]]

C14_TransposedIsRotated ==
    (Encoded /\ Horizontal(enc.image)) =>
        enc.buf = get_frame_buffer(Rotated(enc.image), enc.mode)

C14_Witness ==
    /\ Encoded
    /\ Horizontal(enc.image)
    /\ enc.mode = MODE_4GRAY
    /\ \E i \in 1..Len(enc.buf), j \in 1..Len(enc.buf) : enc.buf[i] # enc.buf[j]

(***************************************************************************)
(* C15.  In FourLevel mode the buffer of a width by height grid has length *)
(* ceil(width/4)*height, and each byte packs the top 2 bits of four        *)
(* consecutive samples s0..s3 of a row as                                  *)
(* (s0>>6)<<6 | (s1>>6)<<4 | (s2>>6)<<2 | (s3>>6).  As stated the samples  *)
(* are packed unchanged: violated, the code first maps 0xC0 to 0x80 and    *)
(* 0x80 to 0x40.                                                           *)
(***************************************************************************)
\* sample k of the four that make byte j of the buffer
SampleAt(im, j, k) ==
    im.px[<<4 * (j % (EPD_WIDTH \div 4)) + k, j \div (EPD_WIDTH \div 4)>>]

\* the top 2 bits the code packs for sample s
PackedBits(s) == IF s = 192 THEN 2 ELSE IF s = 128 THEN 1 ELSE s \div 64

FourLevelVertical == Encoded /\ enc.mode = MODE_4GRAY /\ Vertical(enc.image)

AllBytes(bs, v) == bs # <<>> /\ \A i \in 1..Len(bs) : bs[i] = v

FourLevelDisplayed(v) ==
    /\ pc = "display_frame"
    /\ op.mode = MODE_4GRAY
    /\ op.image = Uniform(v)
    /\ Completed
    /\ err = "none"

BWSent == DataFrom(Wire(trace), First(Wire(trace), 36))
REDSent == DataFrom(Wire(trace), First(Wire(trace), 38))

BWTable == <<0, 1, 0, 1>>
REDTable == <<0, 0, 1, 1>>

\* the n-th 2-bit sample, n in 0..7, of the packed bytes 2i and 2i+1
PairSample(buf, i, n) ==
    LET byte == buf[2 * i + (IF n < 4 THEN 0 ELSE 1) + 1]
        k == n % 4
    IN  (byte \div Pow2(6 - 2 * k)) % 4

C17_PlaneDerivation ==
    enc.stage = "derived" =>
        /\ Len(enc.bw) = (EPD_WIDTH * EPD_HEIGHT) \div 8
        /\ Len(enc.red) = (EPD_WIDTH * EPD_HEIGHT) \div 8
        /\ \A i \in 0..(Len(enc.bw) - 1) :
               /\ enc.bw[i + 1] \in 0..255
               /\ enc.red[i + 1] \in 0..255
               /\ \A n \in 0..7 :
                      /\ BitOf(enc.bw[i + 1], n)
                             = BWTable[PairSample(enc.buf, i, n) + 1]
                      /\ BitOf(enc.red[i + 1], n)
                             = REDTable[PairSample(enc.buf, i, n) + 1]

C17_Witness ==
    /\ enc.stage = "derived"
    /\ Vertical(enc.image)
    /\ \E i \in 1..Len(enc.bw) : enc.bw[i] # enc.red[i]

====
